---- MODULE Spec2Model ----
(***************************************************************************)
(* Customer / combo-package tracker: the relational store (combo_types,    *)
(* combos, customers) and the handlers of components/combo.py,             *)
(* components/customer.py and components/notifications.py.                 *)
(*                                                                         *)
(* Names (combo type names, customer names) and phone numbers are opaque   *)
(* values compared only for equality; they are drawn from small sets of    *)
(* integers.  The free-text `services` column is never read by a handler   *)
(* and is left out of the rows.                                            *)
(***************************************************************************)
EXTENDS Integers, FiniteSets, Sequences, TLC

\* ------------------------------------------------------------------ bounds
MaxUses == 2        \* largest total_uses a caller passes to add_combo_type

TypeNames == {1, 2}          \* combo type names
CustomerNames == {1}         \* customer names
Phones == {2, 3}             \* phone numbers callers pass
CustomerIds == {1, 2}        \* customer ids callers pass
ComboTypeIds == {1, 2}       \* combo type ids (rows of combo_types)
ComboIds == {1, 2}           \* combo ids (rows of combos)
UsesRange == 1..MaxUses      \* total_uses values (a positive integer)

Procs == {1, 2}              \* concurrent callers
ConcTypeNames == {1}         \* what the concurrent callers pass
ConcCustomerIds == {1}
ConcComboTypeIds == {1}

\* The customers table as the process finds it in the store file: one
\* customer on record; the other id callers pass matches no row.
SeedCustomers == {[id |-> 1, name |-> 1, phone |-> 2]}

VARIABLES
    combo_types,      \* rows [id, name, total_uses]
    combos,           \* rows [id, customer_id, combo_type_id, remaining_uses]
    customers,        \* rows [id, name, phone]
    last,             \* the last completed call: [op, a, b, ret, sends]
    \* concurrent callers, one connection each
    pc,               \* pc[p]: the statement caller p is about to run
    call,             \* call[p]: [op, a, b], the handler and its arguments
    local,            \* local[p]: total_uses / cursor.rowcount held by p
    res,              \* res[p]: what p's handler returned
    lock,             \* the connection holding the store's write lock, or 0
    pending,          \* the lock holder's uncommitted tables
    at_issue          \* history: the combos table when the calls were issued

store == <<combo_types, combos, customers>>

concvars == <<pc, call, local, res, lock, pending, at_issue>>

vars == <<combo_types, combos, customers, last,
          pc, call, local, res, lock, pending, at_issue>>

\* ----------------------------------------------------------------- helpers
Max(S) == IF S = {} THEN 0 ELSE CHOOSE x \in S : \A y \in S : y <= x

Ids(rows) == {r.id : r \in rows}

\* The rowid SQLite gives an INSERT that names no id: one more than the
\* largest id now in the table.
NextRowId(rows) == Max(Ids(rows)) + 1

Call(op, a, b, ret) == [op |-> op, a |-> a, b |-> b, ret |-> ret, sends |-> 0]

\* ------------------------------------------------- components/combo.py
\* Mutant: the name column without its UNIQUE constraint.
ComboTypeNameNeverTaken(types, name) == FALSE

\* UNIQUE(name) on combo_types: the INSERT raises IntegrityError.
ComboTypeNameTaken(types, name) == \E t \in types : t.name = name

\* INSERT INTO combo_types (name, services, total_uses) VALUES (?, ?, ?)
InsertComboType(types, name, total_uses) ==
    types \cup {[id |-> NextRowId(types),
                 name |-> name, total_uses |-> total_uses]}

\* add_combo_type: the insert commits and returns True; IntegrityError is
\* caught and returns False with nothing written.
AddComboTypeResult(types, name, total_uses) ==
    IF ComboTypeNameTaken(types, name)
    THEN [combo_types |-> types, ret |-> "False"]
    ELSE [combo_types |-> InsertComboType(types, name, total_uses),
          ret |-> "True"]

add_combo_type(name, total_uses) ==
    LET r == AddComboTypeResult(combo_types, name, total_uses) IN
    /\ Ids(r.combo_types) \subseteq ComboTypeIds
    /\ combo_types' = r.combo_types
    /\ last' = Call("add_combo_type", name, 0, r.ret)
    /\ UNCHANGED <<combos, customers, concvars>>

\* DELETE FROM combo_types WHERE id = ?  (no look at the combos table)
DeleteComboTypeRows(types, combo_type_id) ==
    {t \in types : t.id # combo_type_id}

\* delete_combo_type: commit, then rowcount > 0 decides the result.
DeleteComboTypeResult(types, combo_type_id) ==
    [combo_types |-> DeleteComboTypeRows(types, combo_type_id),
     ret |-> IF \E t \in types : t.id = combo_type_id THEN "True" ELSE "False"]

delete_combo_type(combo_type_id) ==
    LET r == DeleteComboTypeResult(combo_types, combo_type_id) IN
    /\ combo_types' = r.combo_types
    /\ last' = Call("delete_combo_type", 0, 0, r.ret)
    /\ UNCHANGED <<combos, customers, concvars>>

\* SELECT total_uses FROM combo_types WHERE id = ?  (fetchone)
SelectTotalUses(types, combo_type_id) ==
    {t.total_uses : t \in {u \in types : u.id = combo_type_id}}

\* INSERT INTO combos (customer_id, combo_type_id, remaining_uses)
\*   VALUES (?, ?, total_uses)
InsertCombo(cs, customer_id, combo_type_id, total_uses) ==
    cs \cup {[id |-> NextRowId(cs), customer_id |-> customer_id,
              combo_type_id |-> combo_type_id, remaining_uses |-> total_uses]}

\* add_combo(customer_id, combo_type_id): False when the type does not
\* resolve; the customer id is not looked up.
AddComboResult(types, cs, customer_id, combo_type_id) ==
    LET result == SelectTotalUses(types, combo_type_id) IN
    IF result = {}
    THEN [combos |-> cs, ret |-> "False"]
    ELSE [combos |-> InsertCombo(cs, customer_id, combo_type_id,
                                 CHOOSE u \in result : TRUE),
          ret |-> "True"]

add_combo(customer_id, combo_type_id) ==
    LET r == AddComboResult(combo_types, combos, customer_id, combo_type_id) IN
    /\ Ids(r.combos) \subseteq ComboIds
    /\ combos' = r.combos
    /\ last' = Call("add_combo", customer_id, 0, r.ret)
    /\ UNCHANGED <<combo_types, customers, concvars>>

\* get_customer_combos: combos JOIN combo_types ON combo_type_id = id
\*   WHERE customer_id = ? AND remaining_uses > 0
get_customer_combos(types, cs, customer_id) ==
    {[id |-> c.id, customer_id |-> c.customer_id,
      combo_type_id |-> c.combo_type_id, name |-> ct.name,
      remaining_uses |-> c.remaining_uses, total_uses |-> ct.total_uses] :
        <<c, ct>> \in {x \in cs \X types :
                          /\ x[1].combo_type_id = x[2].id
                          /\ x[1].customer_id = customer_id
                          /\ x[1].remaining_uses > 0}}

\* Mutant: the guard off by one (remaining_uses >= 0).
UsageUpdateMatchesAtZero(cs, combo_id) ==
    {c \in cs : c.id = combo_id /\ c.remaining_uses >= 0}

\* The rows the UPDATE of update_combo_usage matches:
\*   WHERE id = ? AND remaining_uses > 0
UsageUpdateMatches(cs, combo_id) ==
    {c \in cs : c.id = combo_id /\ c.remaining_uses > 0}

\* UPDATE combos SET remaining_uses = remaining_uses - 1 WHERE ...
\* One statement: the store evaluates guard and write together.
UpdateUsageRows(cs, combo_id) ==
    {IF c \in UsageUpdateMatches(cs, combo_id)
     THEN [c EXCEPT !.remaining_uses = @ - 1] ELSE c : c \in cs}

\* update_combo_usage: commit, then rowcount > 0 decides the result.
UpdateComboUsageResult(cs, combo_id) ==
    [combos |-> UpdateUsageRows(cs, combo_id),
     ret |-> IF Cardinality(UsageUpdateMatches(cs, combo_id)) > 0
             THEN "True" ELSE "False"]

update_combo_usage(combo_id) ==
    LET r == UpdateComboUsageResult(combos, combo_id) IN
    /\ combos' = r.combos
    /\ last' = Call("update_combo_usage", combo_id, 0, r.ret)
    /\ UNCHANGED <<combo_types, customers, concvars>>

\* ---------------------------------------------- components/customer.py
AddComboParams == 2      \* def add_combo(customer_id, combo_type_id)
AddComboCallArgs == 3    \* add_combo(customer_id, combo_type_id, conn)

\* get_db_connection: customer.py imports it from components.combo, which
\* does not define it.  Each handler opens a connection of its own for the
\* call; statements it has not committed are dropped when it closes.
get_db_connection == [autocommit |-> FALSE]

\* UNIQUE(phone) on customers: the INSERT raises IntegrityError.
PhoneTaken(custs, phone) == \E c \in custs : c.phone = phone

\* INSERT INTO customers (name, phone) VALUES (?, ?)
InsertCustomer(custs, name, phone) ==
    custs \cup {[id |-> NextRowId(custs), name |-> name, phone |-> phone]}

\* The call add_customer makes: positional arguments beyond add_combo's
\* parameters raise TypeError before add_combo's body runs.
CallAddCombo(types, cs, customer_id, combo_type_id, nargs) ==
    IF nargs # AddComboParams
    THEN [combos |-> cs, ret |-> "TypeError"]
    ELSE AddComboResult(types, cs, customer_id, combo_type_id)

\* Mutant: the customer insert committed before the combo is assigned.
AddCustomerResultCommitFirst(types, cs, custs, name, phone, combo_type_id) ==
    IF PhoneTaken(custs, phone)
    THEN [customers |-> custs, combos |-> cs, ret |-> "False"]
    ELSE LET inserted == InsertCustomer(custs, name, phone)
             assigned == CallAddCombo(types, cs, NextRowId(custs),
                                      combo_type_id, AddComboCallArgs)
         IN  [customers |-> inserted, combos |-> assigned.combos,
              ret |-> IF assigned.ret = "True" THEN "True" ELSE "False"]

\* add_customer: insert, assign the initial combo, commit.  IntegrityError
\* and every other exception (the raise on a failed assignment, a TypeError)
\* return False; close() without commit drops the pending insert.
AddCustomerResult(types, cs, custs, name, phone, combo_type_id) ==
    IF PhoneTaken(custs, phone)
    THEN [customers |-> custs, combos |-> cs, ret |-> "False"]
    ELSE LET inserted == InsertCustomer(custs, name, phone)
             assigned == CallAddCombo(types, cs, NextRowId(custs),
                                      combo_type_id, AddComboCallArgs)
         IN  IF assigned.ret = "True"
             THEN [customers |-> inserted, combos |-> assigned.combos,
                   ret |-> "True"]
             ELSE [customers |-> IF get_db_connection.autocommit
                                 THEN inserted ELSE custs,
                   combos |-> assigned.combos, ret |-> "False"]

add_customer(name, phone, combo_type_id) ==
    LET r == AddCustomerResult(combo_types, combos, customers,
                               name, phone, combo_type_id) IN
    /\ Ids(r.combos) \subseteq ComboIds
    /\ customers' = r.customers
    /\ combos' = r.combos
    /\ last' = Call("add_customer", phone, combo_type_id, r.ret)
    /\ UNCHANGED <<combo_types, concvars>>

\* Mutant: the count without its remaining_uses > 0 condition.
ComboCountAnyUses(cs, customer_id) ==
    Cardinality({c \in cs : c.customer_id = customer_id})

\* SELECT COUNT(*) FROM combos WHERE customer_id = ? AND remaining_uses > 0
ActiveComboCount(cs, customer_id) ==
    Cardinality({c \in cs : c.customer_id = customer_id
                            /\ c.remaining_uses > 0})

\* DELETE FROM customers WHERE id = ?
DeleteCustomerRows(custs, customer_id) ==
    {c \in custs : c.id # customer_id}

\* delete_customer: False when the count is positive, else delete, commit,
\* True (rowcount is not read).
DeleteCustomerResult(cs, custs, customer_id) ==
    IF ActiveComboCount(cs, customer_id) > 0
    THEN [customers |-> custs, ret |-> "False"]
    ELSE [customers |-> DeleteCustomerRows(custs, customer_id), ret |-> "True"]

delete_customer(customer_id) ==
    LET r == DeleteCustomerResult(combos, customers, customer_id) IN
    /\ customers' = r.customers
    /\ last' = Call("delete_customer", customer_id, 0, r.ret)
    /\ UNCHANGED <<combo_types, combos, concvars>>

\* Mutant: the count compared the wrong way round.
RemoveCustomerIfCombosLeftResult(cs, custs, customer_id) ==
    IF Cardinality({c \in cs : c.customer_id = customer_id
                               /\ c.remaining_uses > 0}) # 0
    THEN [customers |-> {c \in custs : c.id # customer_id}, ret |-> "True"]
    ELSE [customers |-> custs, ret |-> "False"]

\* remove_customer_if_combos_used_up: count == 0 hands over to
\* delete_customer and returns its result, else returns False.
RemoveCustomerIfCombosUsedUpResult(cs, custs, customer_id) ==
    IF ActiveComboCount(cs, customer_id) = 0
    THEN DeleteCustomerResult(cs, custs, customer_id)
    ELSE [customers |-> custs, ret |-> "False"]

remove_customer_if_combos_used_up(customer_id) ==
    LET r == RemoveCustomerIfCombosUsedUpResult(combos, customers, customer_id) IN
    /\ customers' = r.customers
    /\ last' = Call("remove_customer_if_combos_used_up", customer_id, 0, r.ret)
    /\ UNCHANGED <<combo_types, combos, concvars>>

\* ------------------------------------------ components/notifications.py
\* get_customer_combos reads through sqlite3.connect(DB_PATH) with no
\* row_factory: each row is a tuple, and a tuple indexed by a column name
\* (combo["name"], combo["id"]) raises TypeError.
RowKind == "tuple"

IndexByColumnName(kind) == IF kind = "tuple" THEN "TypeError" ELSE "ok"

\* format_combo_table: no try/except around the loop.
FormatComboTableResult(types, cs, customer_id) ==
    IF get_customer_combos(types, cs, customer_id) = {}
    THEN "No active combos"
    ELSE IF IndexByColumnName(RowKind) = "TypeError" THEN "raised" ELSE "table"

format_combo_table(customer_id) ==
    /\ last' = Call("format_combo_table", 0, 0,
                    FormatComboTableResult(combo_types, combos, customer_id))
    /\ UNCHANGED <<store, concvars>>

\* load_email_template returns None when the file is missing; send_email
\* makes one SMTP attempt and returns True / False; the send functions
\* themselves return nothing (None).
DispatchResult(op, a, b, combo_table, template_exists) ==
    IF combo_table = "raised"
    THEN Call(op, a, b, "raised")
    ELSE [Call(op, a, b, "None") EXCEPT
             !.sends = IF template_exists THEN 1 ELSE 0]

\* send_appointment_confirmation: the loop over get_customer_combos reads
\* combo["id"] before the table is formatted.
SendAppointmentConfirmationResult(types, cs, customer_id, booked, found) ==
    LET listed == get_customer_combos(types, cs, customer_id)
        loop == IF listed = {} THEN "ok" ELSE IndexByColumnName(RowKind)
    IN  DispatchResult("send_appointment_confirmation", 0, 0,
                       IF loop = "TypeError" THEN "raised"
                       ELSE FormatComboTableResult(types, cs, customer_id),
                       found)

send_appointment_confirmation(customer_id, booked_combo_id, template_exists) ==
    /\ last' = SendAppointmentConfirmationResult(
                   combo_types, combos, customer_id, booked_combo_id,
                   template_exists)
    /\ UNCHANGED <<store, concvars>>

SendAppointmentCancellationResult(types, cs, customer_id, template_exists) ==
    DispatchResult("send_appointment_cancellation", 0, 0,
                   FormatComboTableResult(types, cs, customer_id),
                   template_exists)

send_appointment_cancellation(customer_id, template_exists) ==
    /\ last' = SendAppointmentCancellationResult(
                   combo_types, combos, customer_id, template_exists)
    /\ UNCHANGED <<store, concvars>>

\* ------------------------------------------------------- specification
NoCall == [op |-> "none", a |-> 0, b |-> 0]

NoPending == [combo_types |-> {}, combos |-> {}, customers |-> {}]

ConcCalls ==
    {[op |-> "add_combo_type", a |-> n, b |-> u] :
        n \in ConcTypeNames, u \in UsesRange}
    \cup {[op |-> "add_combo", a |-> c, b |-> t] :
        c \in ConcCustomerIds, t \in ConcComboTypeIds}
    \cup {[op |-> "update_combo_usage", a |-> k, b |-> 0] : k \in ComboIds}
    \cup {[op |-> "delete_customer", a |-> c, b |-> 0] : c \in ConcCustomerIds}

\* The first statement each handler runs on its connection.
FirstStatement(op) ==
    CASE op = "add_combo_type" -> "act_insert"
      [] op = "add_combo" -> "ac_select"
      [] op = "update_combo_usage" -> "uu_update"
      [] op = "delete_customer" -> "dc_count"
      [] OTHER -> "idle"

Inserts(calls, op) == Cardinality({p \in Procs : calls[p].op = op})

\* The callers issue their calls; every handler opens its own connection.
Issue(calls) ==
    /\ \A p \in Procs : pc[p] = "idle"
    /\ calls[1] # NoCall
    /\ Cardinality(combo_types) + Inserts(calls, "add_combo_type")
          <= Cardinality(ComboTypeIds)
    /\ Cardinality(combos) + Inserts(calls, "add_combo")
          <= Cardinality(ComboIds)
    /\ call' = calls
    /\ pc' = [p \in Procs |-> FirstStatement(calls[p].op)]
    /\ at_issue' = combos
    /\ UNCHANGED <<store, last, local, res, lock, pending>>

\* Every call has returned; the callers go on.
Join ==
    /\ \A p \in Procs : pc[p] \in {"idle", "done"}
    /\ \E p \in Procs : pc[p] = "done"
    /\ pc' = [p \in Procs |-> "idle"]
    /\ call' = [p \in Procs |-> NoCall]
    /\ local' = [p \in Procs |-> 0]
    /\ res' = [p \in Procs |-> "None"]
    /\ at_issue' = {}
    /\ UNCHANGED <<store, last, lock, pending>>

Return(p, value) ==
    /\ pc' = [pc EXCEPT ![p] = "done"]
    /\ res' = [res EXCEPT ![p] = value]

\* Mutant: writers that do not exclude each other.
NoWriteLock(holder, p) == TRUE

\* A writing statement starts the connection's transaction and takes the
\* store's write lock; one connection holds it at a time.
CanWrite(holder, p) == holder = 0

WriteStatements == {"act_insert", "ac_insert", "uu_update", "dc_delete"}

\* The lock stayed taken for the connection's timeout: the statement raises
\* OperationalError, which every handler catches and turns into False.
Busy(p) ==
    /\ pc[p] \in WriteStatements
    /\ ~CanWrite(lock, p)
    /\ Return(p, "False")
    /\ UNCHANGED <<store, last, call, local, lock, pending, at_issue>>

\* conn.commit(): the pending tables become the store, the lock is freed.
Commit(p, value) ==
    /\ combo_types' = pending.combo_types
    /\ combos' = pending.combos
    /\ customers' = pending.customers
    /\ lock' = 0
    /\ pending' = NoPending
    /\ Return(p, value)
    /\ UNCHANGED <<last, call, local, at_issue>>

Begin(p, tables, next) ==
    /\ lock' = p
    /\ pending' = tables
    /\ pc' = [pc EXCEPT ![p] = next]

Tables == [combo_types |-> combo_types, combos |-> combos,
           customers |-> customers]

\* add_combo_type, statement by statement
act_insert(p) ==
    /\ pc[p] = "act_insert"
    /\ CanWrite(lock, p)
    /\ IF ComboTypeNameTaken(combo_types, call[p].a)
       THEN /\ Return(p, "False")
            /\ UNCHANGED <<lock, pending>>
       ELSE /\ Begin(p, [Tables EXCEPT !.combo_types =
                           InsertComboType(combo_types, call[p].a, call[p].b)],
                     "act_commit")
            /\ UNCHANGED res
    /\ UNCHANGED <<store, last, call, local, at_issue>>

act_commit(p) ==
    /\ pc[p] = "act_commit"
    /\ Commit(p, "True")

\* add_combo, statement by statement
ac_select(p) ==
    /\ pc[p] = "ac_select"
    /\ LET result == SelectTotalUses(combo_types, call[p].b) IN
       IF result = {}
       THEN /\ Return(p, "False")
            /\ UNCHANGED local
       ELSE /\ pc' = [pc EXCEPT ![p] = "ac_insert"]
            /\ local' = [local EXCEPT ![p] = CHOOSE u \in result : TRUE]
            /\ UNCHANGED res
    /\ UNCHANGED <<store, last, call, lock, pending, at_issue>>

ac_insert(p) ==
    /\ pc[p] = "ac_insert"
    /\ CanWrite(lock, p)
    /\ Begin(p, [Tables EXCEPT !.combos =
                   InsertCombo(combos, call[p].a, call[p].b, local[p])],
             "ac_commit")
    /\ UNCHANGED <<store, last, call, local, res, at_issue>>

ac_commit(p) ==
    /\ pc[p] = "ac_commit"
    /\ Commit(p, "True")

\* update_combo_usage, statement by statement
uu_update(p) ==
    /\ pc[p] = "uu_update"
    /\ CanWrite(lock, p)
    /\ Begin(p, [Tables EXCEPT !.combos = UpdateUsageRows(combos, call[p].a)],
             "uu_commit")
    /\ local' = [local EXCEPT ![p] =
                    Cardinality(UsageUpdateMatches(combos, call[p].a))]
    /\ UNCHANGED <<store, last, call, res, at_issue>>

uu_commit(p) ==
    /\ pc[p] = "uu_commit"
    /\ Commit(p, IF local[p] > 0 THEN "True" ELSE "False")

\* delete_customer, statement by statement
dc_count(p) ==
    /\ pc[p] = "dc_count"
    /\ IF ActiveComboCount(combos, call[p].a) > 0
       THEN Return(p, "False")
       ELSE /\ pc' = [pc EXCEPT ![p] = "dc_delete"]
            /\ UNCHANGED res
    /\ UNCHANGED <<store, last, call, local, lock, pending, at_issue>>

dc_delete(p) ==
    /\ pc[p] = "dc_delete"
    /\ CanWrite(lock, p)
    /\ Begin(p, [Tables EXCEPT !.customers =
                   DeleteCustomerRows(customers, call[p].a)],
             "dc_commit")
    /\ UNCHANGED <<store, last, call, local, res, at_issue>>

dc_commit(p) ==
    /\ pc[p] = "dc_commit"
    /\ Commit(p, "True")

Init ==
    /\ combo_types = {}
    /\ combos = {}
    /\ customers = SeedCustomers
    /\ last = Call("start", 0, 0, "None")
    /\ pc = [p \in Procs |-> "idle"]
    /\ call = [p \in Procs |-> NoCall]
    /\ local = [p \in Procs |-> 0]
    /\ res = [p \in Procs |-> "None"]
    /\ lock = 0
    /\ pending = NoPending
    /\ at_issue = {}

Next ==
    \/ \E n \in TypeNames, u \in UsesRange : add_combo_type(n, u)
    \/ \E t \in ComboTypeIds : delete_combo_type(t)
    \/ \E c \in CustomerIds, t \in ComboTypeIds : add_combo(c, t)
    \/ \E k \in ComboIds : update_combo_usage(k)
    \/ \E n \in CustomerNames, ph \in Phones, t \in ComboTypeIds :
          add_customer(n, ph, t)
    \/ \E c \in CustomerIds : delete_customer(c)
    \/ \E c \in CustomerIds : remove_customer_if_combos_used_up(c)
    \/ \E c \in CustomerIds : format_combo_table(c)
    \/ \E c \in CustomerIds, k \in ComboIds, f \in BOOLEAN :
          send_appointment_confirmation(c, k, f)
    \/ \E c \in CustomerIds, f \in BOOLEAN :
          send_appointment_cancellation(c, f)

Spec == Init /\ [][Next]_vars

\* Concurrent callers: the handlers run statement by statement.
ConcNext ==
    \/ \E calls \in [Procs -> ConcCalls \cup {NoCall}] : Issue(calls)
    \/ Join
    \/ \E p \in Procs : Busy(p)
    \/ \E p \in Procs : act_insert(p)
    \/ \E p \in Procs : act_commit(p)
    \/ \E p \in Procs : ac_select(p)
    \/ \E p \in Procs : ac_insert(p)
    \/ \E p \in Procs : ac_commit(p)
    \/ \E p \in Procs : uu_update(p)
    \/ \E p \in Procs : uu_commit(p)
    \/ \E p \in Procs : dc_count(p)
    \/ \E p \in Procs : dc_delete(p)
    \/ \E p \in Procs : dc_commit(p)

ConcSpec == Init /\ [][ConcNext]_vars

\* ------------------------------------------------------------ properties
\* Stated on the rows themselves, apart from the operators of the handlers.
UsesOf(cs, combo_id) == {c.remaining_uses : c \in {x \in cs : x.id = combo_id}}

OwnsActiveCombo(cs, customer_id) ==
    \E c \in cs : c.customer_id = customer_id /\ c.remaining_uses > 0

TypeExists(types, combo_type_id) == \E t \in types : t.id = combo_type_id

\* combo_id consumed n times in a row: the table left and what each call
\* returned, first call first.
RECURSIVE ConsumeTimes(_, _, _)
ConsumeTimes(cs, combo_id, n) ==
    IF n = 0
    THEN [combos |-> cs, rets |-> <<>>]
    ELSE LET before == ConsumeTimes(cs, combo_id, n - 1)
             r == UpdateComboUsageResult(before.combos, combo_id)
         IN  [combos |-> r.combos, rets |-> Append(before.rets, r.ret)]

\* C1: in every reachable state no combo has a negative remaining_uses, and
\* for every combo with remaining_uses = n, n calls of update_combo_usage in
\* a row all return True and leave remaining_uses = 0, and the call after
\* them returns False and leaves it at 0.
C1_ConsumeUntilExhausted ==
    \A c \in combos :
        LET n == c.remaining_uses
            used == ConsumeTimes(combos, c.id, n)
            over == ConsumeTimes(combos, c.id, n + 1)
        IN  /\ n >= 0
            /\ \A i \in 1..n : used.rets[i] = "True"
            /\ UsesOf(used.combos, c.id) = {0}
            /\ over.rets[n + 1] = "False"
            /\ UsesOf(over.combos, c.id) = {0}
            /\ over.combos = used.combos

\* C1 witness: a call on an exhausted combo has just returned False.
C1_Witness ==
    /\ last.op = "update_combo_usage"
    /\ last.ret = "False"
    /\ UsesOf(combos, last.a) = {0}

\* Both callers ran update_combo_usage on combo k, issued together while
\* its remaining_uses was 1, and both have returned.
BothConsumed(k) ==
    /\ \A p \in Procs : pc[p] = "done"
    /\ \A p \in Procs : call[p].op = "update_combo_usage" /\ call[p].a = k
    /\ UsesOf(at_issue, k) = {1}

\* C2: two concurrent update_combo_usage calls on a combo with one use left:
\* under every interleaving exactly one returns True, the other returns
\* False, and remaining_uses ends at 0.
C2_ExactlyOneConsumes ==
    \A k \in ComboIds :
        BothConsumed(k) =>
            /\ Cardinality({p \in Procs : res[p] = "True"}) = 1
            /\ Cardinality({p \in Procs : res[p] = "False"}) = 1
            /\ UsesOf(combos, k) = {0}

\* C2 witness: the two calls overlapped and both have returned.
C2_Witness == \E k \in ComboIds : BothConsumed(k)

\* C3: add_customer with a combo type id that matches no row returns False
\* and leaves every table as it was.
C3_UnknownTypeLeavesNoRows ==
    [][\A n \in CustomerNames, ph \in Phones, t \in ComboTypeIds :
          (add_customer(n, ph, t) /\ ~TypeExists(combo_types, t)) =>
              /\ last'.ret = "False"
              /\ customers' = customers
              /\ combos' = combos
              /\ combo_types' = combo_types]_vars

\* C3 witness: add_customer with a free phone and an unknown type has just
\* returned False, and no row holds that phone.
C3_Witness ==
    /\ last.op = "add_customer"
    /\ last.ret = "False"
    /\ ~TypeExists(combo_types, last.b)
    /\ \A c \in customers : c.phone # last.a

\* C4: add_customer with a phone no customer has and a combo type that
\* exists returns True, and the store then holds the new customer row and
\* exactly one new combo of that customer with remaining_uses = total_uses.
C4_CreateCustomerSucceeds ==
    [][\A n \in CustomerNames, ph \in Phones, t \in ComboTypeIds :
          (/\ add_customer(n, ph, t)
           /\ \A c \in customers : c.phone # ph
           /\ TypeExists(combo_types, t)) =>
              /\ last'.ret = "True"
              /\ \E c \in customers' \ customers :
                    /\ c.phone = ph
                    /\ customers' = customers \cup {c}
                    /\ \E k \in combos' \ combos :
                          /\ combos' = combos \cup {k}
                          /\ k.customer_id = c.id
                          /\ k.combo_type_id = t
                          /\ \E ct \in combo_types :
                                /\ ct.id = t
                                /\ k.remaining_uses = ct.total_uses]_vars

\* C5: delete_customer returns False and keeps the customer row while the
\* customer owns a combo with remaining_uses > 0; with every combo of the
\* customer at 0 it returns True and the row is gone.
C5_DeleteBlockedWhileActive ==
    [][\A c \in CustomerIds :
          delete_customer(c) =>
              IF OwnsActiveCombo(combos, c)
              THEN last'.ret = "False" /\ customers' = customers
              ELSE /\ last'.ret = "True"
                   /\ \A x \in customers' : x.id # c
                   /\ customers' \subseteq customers]_vars

\* C5 witness: the customer's combos were driven to 0 and delete_customer
\* has just removed the row.
C5_Witness ==
    /\ last.op = "delete_customer"
    /\ last.ret = "True"
    /\ \E c \in combos : c.customer_id = last.a
    /\ ~OwnsActiveCombo(combos, last.a)
    /\ \A x \in customers : x.id # last.a

\* C6: add_combo_type with a name the catalog already holds returns False
\* and adds nothing, and the catalog never holds two rows of one name.
C6_OneRowPerName ==
    /\ [](\A t, u \in combo_types : t.name = u.name => t = u)
    /\ [][\A n \in TypeNames, k \in UsesRange :
            (add_combo_type(n, k) /\ \E t \in combo_types : t.name = n) =>
                last'.ret = "False" /\ combo_types' = combo_types]_vars

\* C6 witness: add_combo_type has just refused a name the catalog holds.
C6_Witness ==
    /\ last.op = "add_combo_type"
    /\ last.ret = "False"
    /\ Cardinality({t \in combo_types : t.name = last.a}) = 1

\* C7: every combo row has 0 <= remaining_uses <= total_uses of the combo
\* type it references.
C7_UsesWithinTotal ==
    \A c \in combos :
        \E t \in combo_types :
            /\ t.id = c.combo_type_id
            /\ 0 <= c.remaining_uses
            /\ c.remaining_uses <= t.total_uses

\* C8: get_customer_combos returns exactly the customer's combos with
\* remaining_uses > 0, so it is empty exactly when delete_customer's guard
\* lets the customer go.
C8_ListsEveryActiveCombo ==
    \A cid \in CustomerIds :
        /\ Ids(get_customer_combos(combo_types, combos, cid))
              = Ids({c \in combos : c.customer_id = cid
                                    /\ c.remaining_uses > 0})
        /\ (get_customer_combos(combo_types, combos, cid) = {})
              <=> (DeleteCustomerResult(combos, customers, cid).ret = "True")

\* C9: remove_customer_if_combos_used_up returns False and changes no table
\* while the customer owns a combo with remaining_uses > 0; with none it
\* returns what delete_customer returns and the customer row is gone.
C9_PruneOnlyWhenExhausted ==
    [][\A c \in CustomerIds :
          remove_customer_if_combos_used_up(c) =>
              IF OwnsActiveCombo(combos, c)
              THEN /\ last'.ret = "False"
                   /\ customers' = customers
                   /\ combos' = combos
              ELSE /\ last'.ret = "True"
                   /\ \A x \in customers' : x.id # c
                   /\ customers' \subseteq customers
                   /\ combos' = combos]_vars

\* C9 witness: the prune has just removed a customer whose combos are all
\* used up.
C9_Witness ==
    /\ last.op = "remove_customer_if_combos_used_up"
    /\ last.ret = "True"
    /\ \E c \in combos : c.customer_id = last.a
    /\ ~OwnsActiveCombo(combos, last.a)
    /\ \A x \in customers : x.id # last.a

\* C10: no handler ends with a raised exception, and none makes more than
\* one attempt on the mail channel.
C10_NoErrorEscapes == last.ret # "raised" /\ last.sends <= 1

\* C11: under every interleaving of delete_customer with a concurrent
\* add_combo for the same customer, a customer row leaves the store only
\* when, at that moment, the customer owns no combo with remaining_uses > 0.
C11_RemovedOnlyWithoutActiveCombo ==
    [][\A c \in ConcCustomerIds :
          ((\E x \in customers : x.id = c)
              /\ (\A x \in customers' : x.id # c)) =>
                 ~OwnsActiveCombo(combos, c)]_vars

====
